---- MODULE Spec2Model ----
(***************************************************************************)
(* minitorch/autodiff.py: central_difference, topological_sort,            *)
(* backpropagate and Context.                                              *)
(*                                                                         *)
(* A computation graph is a finite set of nodes named by their unique_id.  *)
(* inputs[n] is n.history.inputs, the ordered inputs of the operation that *)
(* produced n.  topological_sort is modelled twice: as the recursive       *)
(* function the code defines (traverse, topological_sort) and as the       *)
(* machine that executes it one call frame at a time (Traverse* actions),  *)
(* which is what makes its termination a property of behaviours.           *)
(***************************************************************************)
EXTENDS Integers, Sequences, FiniteSets, TLC

\* Number of nodes of the computation graph.
NumNodes == 4

\* Bounds of the Context model: values saved and length of one saved tuple,
\* number of save_for_backward calls followed.
MaxVal == 3
MaxTupleLen == 3
MaxSaves == 3

\* Bounds of the central_difference model: number of arguments of f, range of
\* an argument, range of epsilon.
MaxArgs == 2
MaxAbs == 1
MaxEps == 2

Nodes == 1..NumNodes

\* Seed derivatives passed to backpropagate.
Seeds == {-1, 2}

\* Deepest recursion of _traverse that is followed.  The code never nests
\* deeper than one frame per node plus the frame that finds a node visited.
MaxDepth == NumNodes + 2

VARIABLES
    inputs,            \* inputs[n]: n.history.inputs, a sequence of nodes
    constants,         \* the nodes whose is_constant() is true
    variable,          \* the right-most variable handed to backpropagate
    derivative,        \* derivative[n]: what accumulate_derivative summed on n
    pc,                \* "idle", "sort" (in topological_sort), "loop" (line 103)
    deriv,             \* the deriv argument of the running call
    stack,             \* call frames of _traverse: [v |-> node, i |-> position]
    visited,           \* topological_sort.visited
    sorted_variables,  \* topological_sort.sorted_variables, then line 99
    states,            \* backpropagate.states (a defaultdict(int))
    idx,               \* position of the for loop of line 103
    chain_calls,       \* <<node, d_output>> of each chain_rule call of the call
    acc_calls,         \* <<node, d>> of each accumulate_derivative call
    seed_log,          \* the seeds of the calls made so far
    derivative_pre,    \* derivative when the running call was made
    no_grad,           \* Context.no_grad
    saved_values,      \* Context.saved_values
    save_count,        \* number of save_for_backward calls made
    f,                 \* central_difference: the function f
    vals,              \* central_difference: the caller's *vals
    arg,               \* central_difference: arg
    epsilon,           \* central_difference: epsilon
    cd_pc,             \* central_difference: "call" before, "done" after
    cd_result          \* central_difference: what the call returned and did

graph_vars == <<inputs, constants, variable>>
bp_vars == <<derivative, pc, deriv, stack, visited, sorted_variables, states, idx,
             chain_calls, acc_calls, seed_log, derivative_pre>>
ctx_vars == <<no_grad, saved_values, save_count>>
cd_vars == <<f, vals, arg, epsilon, cd_pc, cd_result>>
vars == <<graph_vars, bp_vars, ctx_vars, cd_vars>>

-----------------------------------------------------------------------------
(* Helpers *)

SeqsUpTo(S, n) == UNION {[1..l -> S] : l \in 0..n}

RECURSIVE SumSeq(_)
SumSeq(s) == IF s = <<>> THEN 0 ELSE Head(s) + SumSeq(Tail(s))

RECURSIVE ProdSeq(_)
ProdSeq(s) == IF s = <<>> THEN 1 ELSE Head(s) * ProdSeq(Tail(s))

Range(s) == {s[i] : i \in 1..Len(s)}

-----------------------------------------------------------------------------
(* The Variable protocol *)

\* Variable.is_constant.
is_constant(n) == n \in constants

\* Variable.is_leaf: no producing operation, hence no inputs; a constant has
\* no history and is no leaf.
is_leaf(n) == inputs[n] = <<>> /\ n \notin constants

\* The local derivative of node n with respect to its i-th input.
EdgeWeight(n, i) == IF i % 2 = 1 THEN n ELSE -(n + 1)

\* Variable.chain_rule: one pair (input, d_output * local derivative) per input.
chain_rule(var, d_output) ==
    [i \in 1..Len(inputs[var]) |-> <<inputs[var][i], d_output * EdgeWeight(var, i)>>]

\* Variable.accumulate_derivative: adds x into the node's running total.
accumulate_derivative(der, n, x) == [der EXCEPT ![n] = @ + x]

-----------------------------------------------------------------------------
(* topological_sort *)

\* line 76: the test `variable.unique_id in visited`
never_visited(vis, v) == FALSE
already_visited(vis, v) == v \in vis

\* line 77: visited.add(variable.unique_id)
visited_forget(vis, v) == vis
visited_add(vis, v) == vis \cup {v}

\* line 82: sorted_variables.appendleft(variable)
appendright(sorted, v) == Append(sorted, v)
appendleft(sorted, v) == <<v>> \o sorted

\* _traverse as the code defines it: st is [visited, sorted_variables].
RECURSIVE traverse(_, _), traverse_inputs(_, _, _)
traverse(v, st) ==
    IF already_visited(st.visited, v) THEN st
    ELSE LET st1 == [st EXCEPT !.visited = visited_add(@, v)]
             st2 == traverse_inputs(v, 1, st1)
         IN  [st2 EXCEPT !.sorted_variables = appendleft(@, v)]
traverse_inputs(v, i, st) ==
    IF i > Len(inputs[v]) THEN st
    ELSE traverse_inputs(v, i + 1, traverse(inputs[v][i], st))

topological_sort(v) ==
    traverse(v, [visited |-> {}, sorted_variables |-> <<>>]).sorted_variables

-----------------------------------------------------------------------------
(* backpropagate *)

\* line 100: states = defaultdict(int)
stale_states == states
new_states == [n \in Nodes |-> 0]

\* line 101: states[variable.unique_id] += deriv
seed_forgotten(st, v, d) == st
seed_states(st, v, d) == [st EXCEPT ![v] = @ + d]

\* line 104: the test that skips a leaf
skip_never(var) == FALSE
skip_in_loop(var) == is_leaf(var)

\* line 112: states[input_var.unique_id] += d
pending_overwrite(st, n, d) == [st EXCEPT ![n] = d]
pending_add(st, n, d) == [st EXCEPT ![n] = @ + d]

\* lines 108-112: the inner loop over grads_for_inputs, from its k-th pair on.
\* b is [states, derivative, chain_calls, acc_calls].
RECURSIVE route(_, _, _)
route(grads, k, b) ==
    IF k > Len(grads) THEN b
    ELSE LET input_var == grads[k][1]
             d == grads[k][2]
         IN  route(grads, k + 1,
                   IF is_leaf(input_var)
                   THEN [b EXCEPT !.derivative = accumulate_derivative(@, input_var, d),
                                  !.acc_calls = Append(@, <<input_var, d>>)]
                   ELSE [b EXCEPT !.states = pending_add(@, input_var, d)])

\* lines 104-112: one iteration of the loop of line 103.
loop_body(var, b) ==
    IF skip_in_loop(var) THEN b
    ELSE LET grad_from_later == b.states[var]
             grads_for_inputs == chain_rule(var, grad_from_later)
         IN  route(grads_for_inputs, 1,
                   [b EXCEPT !.chain_calls = Append(@, <<var, grad_from_later>>)])

RECURSIVE loop_from(_, _, _)
loop_from(sorted, k, b) ==
    IF k > Len(sorted) THEN b ELSE loop_from(sorted, k + 1, loop_body(sorted[k], b))

\* backpropagate(v, d) as a function of the accumulators it starts from.
backpropagate(v, d, der) ==
    loop_from(topological_sort(v), 1,
              [states |-> seed_states(new_states, v, d), derivative |-> der,
               chain_calls |-> <<>>, acc_calls |-> <<>>])

-----------------------------------------------------------------------------
(* Context *)

\* Context.save_for_backward: ctx is [no_grad, saved_values].
save_always(ctx, values) == [ctx EXCEPT !.saved_values = values]
save_for_backward(ctx, values) ==
    IF ctx.no_grad THEN ctx ELSE [ctx EXCEPT !.saved_values = values]

\* Context.saved_tensors.
saved_tensors(ctx) == ctx.saved_values

-----------------------------------------------------------------------------
(* central_difference *)

\* The functions f followed, each of any number of integer arguments.
FNames == {"sumsq", "product", "abssum"}

Abs(x) == IF x < 0 THEN -x ELSE x

Apply(fn, xs) ==
    CASE fn = "sumsq" -> SumSeq([k \in 1..Len(xs) |-> xs[k] * xs[k]])
      [] fn = "product" -> ProdSeq(xs)
      [] fn = "abssum" -> SumSeq([k \in 1..Len(xs) |-> Abs(xs[k])])

RECURSIVE GCD(_, _)
GCD(a, b) == IF b = 0 THEN a ELSE GCD(b, a % b)

\* The exact quotient n / d of line 32, as a fraction in lowest terms with a
\* positive denominator.
Quotient(n, d) ==
    LET g == GCD(Abs(n), Abs(d))
        sgn == IF d < 0 THEN -1 ELSE 1
    IN  <<sgn * (n \div g), sgn * (d \div g)>>

\* line 30: the step back from x + epsilon
step_back_once(eps) == eps
step_back(eps) == 2 * eps

\* central_difference(f, *xs, arg=a, epsilon=eps): the value returned and the
\* argument lists f was called with, in order.  Python's xs[a] is xs[a + 1].
central_difference(fn, xs, a, eps) ==
    LET vals0 == xs
        vals1 == [vals0 EXCEPT ![a + 1] = @ + eps]
        v1 == Apply(fn, vals1)
        vals2 == [vals1 EXCEPT ![a + 1] = @ - step_back(eps)]
        v2 == Apply(fn, vals2)
    IN  [value |-> Quotient(v1 - v2, 2 * eps), evaluations |-> <<vals1, vals2>>]

-----------------------------------------------------------------------------
(* The graphs followed *)

\* An operation has at most two inputs; it takes them among the two nodes
\* constructed just before it (unique_id grows with construction), in either
\* order and possibly the same node twice.
InputChoices(k) ==
    LET W == {m \in Nodes : m < k /\ m >= k - 2}
    IN  {<<>>} \cup {<<a>> : a \in W} \cup {<<a, b>> : a, b \in W}

RECURSIVE GraphsUpTo(_)
GraphsUpTo(k) ==
    IF k = 0 THEN {<<>>}
    ELSE {Append(g, s) : g \in GraphsUpTo(k - 1), s \in InputChoices(k)}

\* A history edited after construction can list a node among its own inputs
\* or point back at the output: <<a, b>> appends b to the inputs of a.
BackEdges == {<<a, a>> : a \in Nodes} \cup {<<1, NumNodes>>}

WithBackEdge(g, e) == [g EXCEPT ![e[1]] = Append(@, e[2])]

Graphs == GraphsUpTo(NumNodes)
          \cup {WithBackEdge(g, e) : g \in GraphsUpTo(NumNodes), e \in BackEdges}

\* Nodes reachable from the nodes of S by following inputs zero or more times.
RECURSIVE Closure(_)
Closure(S) ==
    LET T == S \cup UNION {Range(inputs[m]) : m \in S}
    IN  IF T = S THEN S ELSE Closure(T)

\* Nodes reachable from n by following inputs one or more times.
Ancestors(n) == Closure(Range(inputs[n]))

Reachable(n) == {n} \cup Ancestors(n)

Acyclic == \A n \in Nodes : n \notin Ancestors(n)

\* Sum, over the input-paths from a to b, of the product of the edge weights
\* on the path (acyclic graphs only).
RECURSIVE PathSum(_, _)
PathSum(a, b) ==
    IF a = b THEN 1
    ELSE SumSeq([i \in 1..Len(inputs[a]) |->
                    EdgeWeight(a, i) * PathSum(inputs[a][i], b)])

-----------------------------------------------------------------------------
(* Initial states *)

CtxIdle == no_grad = FALSE /\ saved_values = <<>> /\ save_count = 0

NoResult == [value |-> <<0, 1>>, evaluations |-> <<>>]

CdIdle ==
    /\ f = "none" /\ vals = <<>> /\ arg = 0 /\ epsilon = 1
    /\ cd_pc = "done" /\ cd_result = NoResult

BpIdle ==
    /\ derivative = [n \in Nodes |-> 0]
    /\ pc = "idle"
    /\ deriv = 0
    /\ stack = <<>>
    /\ visited = {}
    /\ sorted_variables = <<>>
    /\ states = [n \in Nodes |-> 0]
    /\ idx = 0
    /\ chain_calls = <<>>
    /\ acc_calls = <<>>
    /\ seed_log = <<>>
    /\ derivative_pre = [n \in Nodes |-> 0]

\* The graph is built, no call is made yet.  The output is the node constructed
\* last; a constant is never the output.
Init ==
    /\ inputs \in Graphs
    /\ constants \in {{}} \cup {{c} : c \in {n \in Nodes : n # NumNodes /\ inputs[n] = <<>>}}
    /\ variable = NumNodes
    /\ BpIdle
    /\ CtxIdle
    /\ CdIdle

-----------------------------------------------------------------------------
(* backpropagate, step by step *)

Top == stack[Len(stack)]

Pop == SubSeq(stack, 1, Len(stack) - 1)

\* line 88: backpropagate(variable, s) is called; line 99 calls
\* topological_sort, whose line 84 calls _traverse(variable).
Call(s) ==
    /\ pc = "idle"
    /\ Len(seed_log) < 2
    /\ pc' = "sort"
    /\ deriv' = s
    /\ stack' = <<[v |-> variable, i |-> 0]>>
    /\ visited' = {}
    /\ sorted_variables' = <<>>
    /\ idx' = 0
    /\ chain_calls' = <<>>
    /\ acc_calls' = <<>>
    /\ seed_log' = Append(seed_log, s)
    /\ derivative_pre' = derivative
    /\ UNCHANGED <<derivative, states, graph_vars, ctx_vars, cd_vars>>

\* line 76: the node was visited, _traverse returns at once.
TraverseSkip ==
    /\ pc = "sort" /\ stack # <<>>
    /\ Top.i = 0
    /\ already_visited(visited, Top.v)
    /\ stack' = Pop
    /\ UNCHANGED <<derivative, pc, deriv, visited, sorted_variables, states, idx,
                   chain_calls, acc_calls, seed_log, derivative_pre,
                   graph_vars, ctx_vars, cd_vars>>

\* lines 76-77: the node is new, it is marked before its inputs are explored.
TraverseEnter ==
    /\ pc = "sort" /\ stack # <<>>
    /\ Top.i = 0
    /\ ~already_visited(visited, Top.v)
    /\ visited' = visited_add(visited, Top.v)
    /\ stack' = [stack EXCEPT ![Len(stack)].i = 1]
    /\ UNCHANGED <<derivative, pc, deriv, sorted_variables, states, idx,
                   chain_calls, acc_calls, seed_log, derivative_pre,
                   graph_vars, ctx_vars, cd_vars>>

\* lines 79-80: _traverse(input_var) for the next input.
TraverseRecurse ==
    /\ pc = "sort" /\ stack # <<>>
    /\ Top.i >= 1 /\ Top.i <= Len(inputs[Top.v])
    /\ Len(stack) < MaxDepth
    /\ stack' = Append([stack EXCEPT ![Len(stack)].i = @ + 1],
                       [v |-> inputs[Top.v][Top.i], i |-> 0])
    /\ UNCHANGED <<derivative, pc, deriv, visited, sorted_variables, states, idx,
                   chain_calls, acc_calls, seed_log, derivative_pre,
                   graph_vars, ctx_vars, cd_vars>>

\* line 82: every input is explored, the node goes to the front.
TraverseReturn ==
    /\ pc = "sort" /\ stack # <<>>
    /\ Top.i > Len(inputs[Top.v])
    /\ sorted_variables' = appendleft(sorted_variables, Top.v)
    /\ stack' = Pop
    /\ UNCHANGED <<derivative, pc, deriv, visited, states, idx,
                   chain_calls, acc_calls, seed_log, derivative_pre,
                   graph_vars, ctx_vars, cd_vars>>

\* lines 85, 99-101: topological_sort returns, states is created and seeded.
SortReturn ==
    /\ pc = "sort" /\ stack = <<>>
    /\ pc' = "loop"
    /\ states' = seed_states(new_states, variable, deriv)
    /\ idx' = 1
    /\ UNCHANGED <<derivative, deriv, stack, visited, sorted_variables,
                   chain_calls, acc_calls, seed_log, derivative_pre,
                   graph_vars, ctx_vars, cd_vars>>

\* lines 103-112: one iteration of the loop over sorted_variables.
LoopStep ==
    /\ pc = "loop" /\ idx <= Len(sorted_variables)
    /\ LET b == loop_body(sorted_variables[idx],
                          [states |-> states, derivative |-> derivative,
                           chain_calls |-> chain_calls, acc_calls |-> acc_calls])
       IN  /\ states' = b.states
           /\ derivative' = b.derivative
           /\ chain_calls' = b.chain_calls
           /\ acc_calls' = b.acc_calls
    /\ idx' = idx + 1
    /\ UNCHANGED <<pc, deriv, stack, visited, sorted_variables, seed_log,
                   derivative_pre, graph_vars, ctx_vars, cd_vars>>

\* the loop is exhausted, backpropagate returns None.
BackpropReturn ==
    /\ pc = "loop" /\ idx > Len(sorted_variables)
    /\ pc' = "idle"
    /\ UNCHANGED <<derivative, deriv, stack, visited, sorted_variables, states, idx,
                   chain_calls, acc_calls, seed_log, derivative_pre,
                   graph_vars, ctx_vars, cd_vars>>

Next ==
    \/ \E s \in Seeds : Call(s)
    \/ TraverseSkip
    \/ TraverseEnter
    \/ TraverseRecurse
    \/ TraverseReturn
    \/ SortReturn
    \/ LoopStep
    \/ BackpropReturn

Spec == Init /\ [][Next]_vars

\* A call that has started is never suspended: the code is synchronous.
FairSpec == Spec /\ WF_vars(Next)

-----------------------------------------------------------------------------
(* Properties of topological_sort *)

\* topological_sort has returned and its result is bound at line 99.
Sorted == pc = "loop"

\* Some reachable node other than the output has two different consumers
\* among the reachable nodes.
HasDiamond ==
    \E n \in Ancestors(variable) :
        Cardinality({c \in Reachable(variable) : n \in Range(inputs[c])}) >= 2

\* The machine computes what the recursive definition computes.
SortAgrees == Sorted => sorted_variables = topological_sort(variable)

\* C1: on an acyclic graph, in the sequence topological_sort returns every
\* ancestor of a node stands strictly after the node, and the root is first.
TopologicalValidity ==
    (Sorted /\ Acyclic) =>
        /\ sorted_variables # <<>>
        /\ sorted_variables[1] = variable
        /\ \A i, j \in 1..Len(sorted_variables) :
               sorted_variables[j] \in Ancestors(sorted_variables[i]) => i < j

\* C1 witness: a sort of an acyclic graph with a shared non-leaf node, all
\* nodes reachable.
WitnessTopological ==
    /\ Sorted /\ Acyclic /\ HasDiamond
    /\ Len(sorted_variables) = NumNodes
    /\ \E n \in Ancestors(variable) : inputs[n] # <<>>

\* C2: the sequence topological_sort returns holds exactly the nodes
\* reachable from the root, each once; a root with no inputs is sorted alone.
VisitOnce ==
    Sorted =>
        /\ Range(sorted_variables) = Reachable(variable)
        /\ Len(sorted_variables) = Cardinality(Reachable(variable))
        /\ (inputs[variable] = <<>> => sorted_variables = <<variable>>)

\* C2 witness: a sort that met a node shared by two consumers and a consumer
\* that lists the same input twice.
WitnessVisitOnce ==
    /\ Sorted /\ HasDiamond
    /\ \E n \in Reachable(variable) :
           Len(inputs[n]) >= 2 /\ inputs[n][1] = inputs[n][2]

\* C2 witness, single node: the root has no inputs.
WitnessSingleNode == Sorted /\ inputs[variable] = <<>>

\* C6: no constant appears in the sequence topological_sort returns.
ConstantsExcluded ==
    Sorted => \A k \in 1..Len(sorted_variables) : ~is_constant(sorted_variables[k])

-----------------------------------------------------------------------------
(* Properties of backpropagate *)

\* A call of backpropagate has returned.
Returned == pc = "idle" /\ seed_log # <<>>

\* The d_output that chain_rule was invoked with on node c in the running call.
GradOf(c) == chain_calls[CHOOSE k \in 1..Len(chain_calls) : chain_calls[k][1] = c][2]

\* What the chain_rule call on c sent to node n: the sum of the pairs of its
\* result that name n.
ContributionOf(c, n) ==
    LET grads == chain_rule(c, GradOf(c))
    IN  SumSeq([k \in 1..Len(grads) |-> IF grads[k][1] = n THEN grads[k][2] ELSE 0])

RECURSIVE SumOver(_, _)
SumOver(S, n) ==
    IF S = {} THEN 0
    ELSE LET c == CHOOSE x \in S : TRUE
         IN  ContributionOf(c, n) + SumOver(S \ {c}, n)

\* The consumers of n that the output reaches.
Consumers(n) == {c \in Reachable(variable) : n \in Range(inputs[c])}

\* C3: on an acyclic graph, a call on a non-leaf output adds to every leaf
\* the seed times the sum over the paths from the output to the leaf of the
\* product of the edge weights, and so leaves the unreachable leaves alone.
GradientAtLeaves ==
    (Returned /\ Acyclic /\ ~is_leaf(variable)) =>
        \A n \in Nodes :
            derivative[n] = IF is_leaf(n)
                            THEN derivative_pre[n] + deriv * PathSum(variable, n)
                            ELSE derivative_pre[n]

\* C3 witness: a returned call on an acyclic graph that changed a leaf reached
\* through a node with two consumers.
WitnessGradient ==
    /\ Returned /\ Acyclic /\ HasDiamond
    /\ \E n \in Ancestors(variable) :
           /\ is_leaf(n)
           /\ derivative[n] # derivative_pre[n]
           /\ \E m \in Consumers(n) : Cardinality(Consumers(m)) >= 2

\* C4: on an acyclic graph, every chain_rule call of the running call was
\* made with the sum of what all reachable consumers of the node sent it
\* (plus the seed for the output), every one of them having been chain-ruled
\* before, and the node's pending entry has not changed since.
FanInComplete ==
    Acyclic =>
        \A k \in 1..Len(chain_calls) :
            LET n == chain_calls[k][1]
                d == chain_calls[k][2]
            IN  /\ \A c \in Consumers(n) :
                       \E j \in 1..(k - 1) : chain_calls[j][1] = c
                /\ d = (IF n = variable THEN deriv ELSE 0) + SumOver(Consumers(n), n)
                /\ states[n] = d

\* C4 witness: chain_rule was invoked on a node that is not the output, has
\* inputs of its own and two different consumers.
WitnessFanIn ==
    /\ Acyclic
    /\ \E k \in 1..Len(chain_calls) :
           LET n == chain_calls[k][1]
           IN  /\ n # variable
               /\ inputs[n] # <<>>
               /\ Cardinality(Consumers(n)) >= 2
               /\ chain_calls[k][2] # 0

\* C5: after backpropagate(output, s1) and backpropagate(output, s2) every
\* accumulator holds what one backpropagate(output, s1 + s2) leaves from the
\* same start.
AdditiveAcrossCalls ==
    (Returned /\ Len(seed_log) = 2) =>
        derivative = backpropagate(variable, seed_log[1] + seed_log[2],
                                   [n \in Nodes |-> 0]).derivative

\* C5 witness: two calls have returned and changed a leaf, on a graph where
\* an inner node had a pending gradient.
WitnessAdditive ==
    /\ Returned /\ Len(seed_log) = 2
    /\ \E n \in Nodes : is_leaf(n) /\ derivative[n] # 0
    /\ \E n \in Nodes \ {variable} : inputs[n] # <<>> /\ states[n] # 0

\* C9: every call of backpropagate that starts returns, cycles or not.
Termination == (pc # "idle") ~> (pc = "idle")

\* C9 witness: a call on a graph in which the output is its own ancestor
\* has returned.
WitnessTermination == Returned /\ variable \in Ancestors(variable)

\* C10: a call on a leaf output invokes neither chain_rule nor
\* accumulate_derivative; the seed lands in states only and no accumulator
\* moves.
LeafOutputReceivesNothing ==
    (is_leaf(variable) /\ (pc = "loop" \/ Returned)) =>
        /\ chain_calls = <<>>
        /\ acc_calls = <<>>
        /\ derivative = derivative_pre
        /\ states = [n \in Nodes |-> IF n = variable THEN deriv ELSE 0]

\* C10 witness: a call on a leaf output has returned, other leaves exist.
WitnessLeafOutput ==
    /\ is_leaf(variable) /\ Returned
    /\ \E n \in Nodes \ {variable} : is_leaf(n)
    /\ states[variable] = deriv

-----------------------------------------------------------------------------
(* Context, a call at a time *)

Tuples == SeqsUpTo(1..MaxVal, MaxTupleLen)

InitCtx ==
    /\ no_grad \in BOOLEAN
    /\ saved_values = <<>>
    /\ save_count = 0
    /\ inputs = [n \in Nodes |-> <<>>] /\ constants = {} /\ variable = NumNodes
    /\ BpIdle
    /\ CdIdle

SaveForBackward(values) ==
    /\ save_count < MaxSaves
    /\ LET ctx == save_for_backward([no_grad |-> no_grad, saved_values |-> saved_values],
                                    values)
       IN  /\ no_grad' = ctx.no_grad
           /\ saved_values' = ctx.saved_values
    /\ save_count' = save_count + 1
    /\ UNCHANGED <<graph_vars, bp_vars, cd_vars>>

NextCtx == \E values \in Tuples : SaveForBackward(values)

SpecCtx == InitCtx /\ [][NextCtx]_vars

\* C7: with no_grad set, saved_tensors is the empty tuple after any calls of
\* save_for_backward, and no call changes a field of the Context.
NoGradContext ==
    /\ [](no_grad => saved_tensors([no_grad |-> no_grad,
                                    saved_values |-> saved_values]) = <<>>)
    /\ [][no_grad => (no_grad' = no_grad /\ saved_values' = saved_values)]_vars

\* C7 witness: several calls were made on a no_grad Context.
WitnessNoGrad == no_grad /\ save_count >= 2 /\ saved_values = <<>>

-----------------------------------------------------------------------------
(* central_difference, a call at a time *)

InitCd ==
    /\ f \in FNames
    /\ vals \in SeqsUpTo(-MaxAbs..MaxAbs, MaxArgs) \ {<<>>}
    /\ arg \in 0..(Len(vals) - 1)
    /\ epsilon \in 1..MaxEps
    /\ cd_pc = "call"
    /\ cd_result = NoResult
    /\ inputs = [n \in Nodes |-> <<>>] /\ constants = {} /\ variable = NumNodes
    /\ BpIdle
    /\ CtxIdle

CentralDifference ==
    /\ cd_pc = "call"
    /\ cd_pc' = "done"
    /\ cd_result' = central_difference(f, vals, arg, epsilon)
    /\ UNCHANGED <<f, vals, arg, epsilon, graph_vars, bp_vars, ctx_vars>>

NextCd == CentralDifference

SpecCd == InitCd /\ [][NextCd]_vars

\* C8: f is evaluated twice, at the arguments with x_arg + epsilon and then
\* with x_arg - epsilon, the others as given; the value returned is the
\* difference of the two results over 2 * epsilon.
CentralDifferenceExact ==
    cd_pc = "done" =>
        LET plus == [k \in 1..Len(vals) |->
                        IF k = arg + 1 THEN vals[k] + epsilon ELSE vals[k]]
            minus == [k \in 1..Len(vals) |->
                        IF k = arg + 1 THEN vals[k] - epsilon ELSE vals[k]]
        IN  /\ cd_result.evaluations = <<plus, minus>>
            /\ cd_result.value[1] * (2 * epsilon)
                   = (Apply(f, plus) - Apply(f, minus)) * cd_result.value[2]
            /\ cd_result.value[2] > 0

\* C8 witness: a call with two arguments, differentiated in the second, that
\* returned a non-zero estimate which is no integer.
WitnessCentralDifference ==
    /\ cd_pc = "done"
    /\ Len(vals) >= 2 /\ arg = 1
    /\ cd_result.value[1] # 0
    /\ cd_result.value[2] > 1

====
